---- MODULE Spec2Model ----
(***************************************************************************)
(* Model of pp.py: BedrockConnector.invoke_model (dispatch on model_id,    *)
(* request body construction, the call of the inference client, response   *)
(* parsing, the except clause), send_sns_message and the example flow      *)
(* main().                                                                 *)
(*                                                                         *)
(* Conventions.  Python str values are TLA+ strings.  A Python dict is a   *)
(* function from its keys to its values (the empty dict is << >>), a list  *)
(* is a sequence.  A JSON text is represented by the document it denotes,  *)
(* wrapped in a record so that it is distinct from the dict itself.        *)
(* Floats with one decimal are integers counting tenths (0.5 is 5).        *)
(* A Python value returned to a caller is a record [type, val]; None is    *)
(* the only value of type NoneType.                                        *)
(***************************************************************************)
EXTENDS Integers, Sequences, FiniteSets, TLC

(***************************************************************************)
(* Bounds of the model.                                                    *)
(***************************************************************************)
\* a model_id is the concatenation of at most MaxParts fragments
MaxParts == 2
\* the result list of a provider response has at most MaxList elements
MaxList == 2

RECURSIVE SeqsUpTo(_, _)
SeqsUpTo(S, n) ==
    IF n = 0 THEN {<< >>}
    ELSE LET shorter == SeqsUpTo(S, n - 1)
         IN  shorter \cup {Append(s, e) : s \in {t \in shorter : Len(t) = n - 1}, e \in S}

RECURSIVE Concat(_)
Concat(parts) == IF parts = << >> THEN "" ELSE Head(parts) \o Concat(Tail(parts))

\* fragments the caller's model_id is made of
IdFragments ==
    {"anthropic.claude", "amazon.titan", "ai21.j2", "-text-express-v1",
     "anthropic.", "claude"}
ModelIds == {Concat(parts) : parts \in SeqsUpTo(IdFragments, MaxParts)}
Prompts == {"Write a short poem about AI", ""}
\* the keyword arguments the caller may give (each may be omitted)
KwargsSet ==
    {<< >>, [max_tokens |-> 200], [temperature |-> 8],
     [max_tokens |-> 200, temperature |-> 8]}

(***************************************************************************)
(* Python and library primitives.                                          *)
(***************************************************************************)
\* Python: sub in s  (substring containment on str)
In(sub, s) ==
    \E i \in 1..(Len(s) - Len(sub) + 1) : SubSeq(s, i, i + Len(sub) - 1) = sub

\* json.dumps / json.loads
json_dumps(obj) == [json |-> obj]
json_loads(text) == text.json

PyStr(s) == [type |-> "str", val |-> s]
None == [type |-> "NoneType", val |-> ""]

\* the superclass of each exception class that occurs (botocore, builtins)
ExcParent ==
    [ClientError |-> "Exception",
     ThrottlingException |-> "ClientError",
     EndpointConnectionError |-> "BotoCoreError",
     BotoCoreError |-> "Exception",
     ValueError |-> "Exception",
     IndexError |-> "LookupError",
     KeyError |-> "LookupError",
     NoCredentialsError |-> "BotoCoreError",
     LookupError |-> "Exception",
     Exception |-> "BaseException"]

\* Python: isinstance(exc, cls), which decides whether "except cls" matches
RECURSIVE IsInstance(_, _)
IsInstance(exc, cls) ==
    \/ exc = cls
    \/ exc \in DOMAIN ExcParent /\ IsInstance(ExcParent[exc], cls)

\* a keyword parameter with a default value
Arg(kwargs, name, default) ==
    IF name \in DOMAIN kwargs THEN kwargs[name] ELSE default

DefaultMaxTokens == 1000
DefaultTemperature == 5
TopP == 9

(***************************************************************************)
(* Request bodies.                                                         *)
(***************************************************************************)
\* variant: the prompt is sent without the Human/Assistant frame
_create_anthropic_body_unframed(prompt, kwargs) ==
    json_dumps(
        [prompt |-> prompt,
         max_tokens_to_sample |-> Arg(kwargs, "max_tokens", DefaultMaxTokens),
         temperature |-> Arg(kwargs, "temperature", DefaultTemperature),
         stop_sequences |-> <<"\n\nHuman:">>])

_create_anthropic_body(prompt, kwargs) ==
    json_dumps(
        [prompt |-> "\n\nHuman: " \o prompt \o "\n\nAssistant:",
         max_tokens_to_sample |-> Arg(kwargs, "max_tokens", DefaultMaxTokens),
         temperature |-> Arg(kwargs, "temperature", DefaultTemperature),
         stop_sequences |-> <<"\n\nHuman:">>])

\* variant: topP follows the caller's temperature
_create_titan_body_callerTopP(prompt, kwargs) ==
    json_dumps(
        [inputText |-> prompt,
         textGenerationConfig |->
            [maxTokenCount |-> Arg(kwargs, "max_tokens", DefaultMaxTokens),
             temperature |-> Arg(kwargs, "temperature", DefaultTemperature),
             topP |-> Arg(kwargs, "temperature", TopP)]])

_create_titan_body(prompt, kwargs) ==
    json_dumps(
        [inputText |-> prompt,
         textGenerationConfig |->
            [maxTokenCount |-> Arg(kwargs, "max_tokens", DefaultMaxTokens),
             temperature |-> Arg(kwargs, "temperature", DefaultTemperature),
             topP |-> TopP]])

_create_ai21_body(prompt, kwargs) ==
    json_dumps(
        [prompt |-> prompt,
         maxTokens |-> Arg(kwargs, "max_tokens", DefaultMaxTokens),
         temperature |-> Arg(kwargs, "temperature", DefaultTemperature),
         topP |-> TopP])

(***************************************************************************)
(* Response parsing.  The outcome of a parser is either a returned value   *)
(* or a raised exception: d[k] on a missing key raises KeyError, l[0] on   *)
(* an empty list raises IndexError.                                        *)
(***************************************************************************)
Returned(v) == [kind |-> "return", value |-> v, exc |-> "none"]
Raised(e) == [kind |-> "raise", value |-> None, exc |-> e]

\* variant: response_body.get('completion') or 'No response'
_parse_anthropic_response_falsy(response) ==
    LET response_body == json_loads(response.body)
    IN  IF "completion" \in DOMAIN response_body /\ response_body.completion # ""
        THEN Returned(PyStr(response_body.completion))
        ELSE Returned(PyStr("No response"))

_parse_anthropic_response(response) ==
    LET response_body == json_loads(response.body)
    IN  IF "completion" \in DOMAIN response_body
        THEN Returned(PyStr(response_body.completion))
        ELSE Returned(PyStr("No response"))

\* variant: reads results[-1]
_parse_titan_response_last(response) ==
    LET response_body == json_loads(response.body)
        n == Len(response_body.results)
    IN  IF "results" \notin DOMAIN response_body THEN Raised("KeyError")
        ELSE IF n = 0 THEN Raised("IndexError")
        ELSE IF "outputText" \notin DOMAIN response_body.results[n]
             THEN Raised("KeyError")
        ELSE Returned(PyStr(response_body.results[n].outputText))

_parse_titan_response(response) ==
    LET response_body == json_loads(response.body)
    IN  IF "results" \notin DOMAIN response_body THEN Raised("KeyError")
        ELSE IF Len(response_body.results) = 0 THEN Raised("IndexError")
        ELSE IF "outputText" \notin DOMAIN response_body.results[1]
             THEN Raised("KeyError")
        ELSE Returned(PyStr(response_body.results[1].outputText))

\* variant: an empty completions list yields the "No response" text
_parse_ai21_response_sentinel(response) ==
    LET response_body == json_loads(response.body)
    IN  IF "completions" \notin DOMAIN response_body THEN Raised("KeyError")
        ELSE IF Len(response_body.completions) = 0
             THEN Returned(PyStr("No response"))
        ELSE IF "data" \notin DOMAIN response_body.completions[1]
             THEN Raised("KeyError")
        ELSE IF "text" \notin DOMAIN response_body.completions[1].data
             THEN Raised("KeyError")
        ELSE Returned(PyStr(response_body.completions[1].data.text))

_parse_ai21_response(response) ==
    LET response_body == json_loads(response.body)
    IN  IF "completions" \notin DOMAIN response_body THEN Raised("KeyError")
        ELSE IF Len(response_body.completions) = 0 THEN Raised("IndexError")
        ELSE IF "data" \notin DOMAIN response_body.completions[1]
             THEN Raised("KeyError")
        ELSE IF "text" \notin DOMAIN response_body.completions[1].data
             THEN Raised("KeyError")
        ELSE Returned(PyStr(response_body.completions[1].data.text))

(***************************************************************************)
(* What the inference client (external) may answer.                        *)
(***************************************************************************)
Texts == {"roses are red", ""}
TitanItems == {[outputText |-> t] : t \in Texts}
Ai21Items == {[data |-> [text |-> t]] : t \in Texts}
\* the well-formed answers of the three families (with result lists of any
\* length from 0 to MaxList), the empty document, and answers whose first
\* list element lacks the field the parser reads
ResponseBodies ==
    {<< >>}
    \cup {[completion |-> t] : t \in Texts}
    \cup {[results |-> l] : l \in SeqsUpTo(TitanItems, MaxList)}
    \cup {[completions |-> l] : l \in SeqsUpTo(Ai21Items, MaxList)}
    \cup {[results |-> << << >> >>], [completions |-> << << >> >>],
          [completions |-> << [data |-> << >>] >>]}
\* ClientError is the provider's error response, ThrottlingException one of
\* its subclasses; EndpointConnectionError is one of the client's failures
\* that is not a ClientError
ClientExceptions ==
    {"ClientError", "ThrottlingException", "EndpointConnectionError"}

NoBody == [json |-> << >>]
NoResponse == [body |-> NoBody]
NoOutcome == [kind |-> "pending", value |-> None, exc |-> "none"]

VARIABLES
    pc,            \* position inside invoke_model
    model_id,      \* argument of invoke_model
    prompt,        \* argument of invoke_model
    kwargs,        \* keyword arguments of invoke_model
    body,          \* local of invoke_model: the serialized request body
    content_type,  \* local of invoke_model
    accept,        \* local of invoke_model
    response,      \* local of invoke_model: what the client returned
    exc,           \* exception in flight inside the try block
    outcome,       \* how invoke_model ended: value returned or exception raised
    built,         \* which _create_*_body the call used
    parsed,        \* which _parse_*_response the call used
    clientCalls,   \* every call the inference client received, in order
    callsAtEntry,  \* Len(clientCalls) when the current invoke_model began
    clientExc,     \* what the client raised in the current invoke_model
    mainPc,        \* position inside main ("harness": main is not running)
    main_response, \* local "response" of main
    titan_response,\* local "titan_response" of main
    returnsSeen,   \* the values invoke_model returned to main, in order
    mainExc,       \* the exception main's except clause caught, if any
    snsClient,     \* local "sns" of send_sns_message
    snsCalls       \* every call sns.publish received, in order

adapterVars ==
    <<pc, model_id, prompt, kwargs, body, content_type, accept, response, exc,
      outcome, built, parsed, clientCalls, callsAtEntry, clientExc>>
mainVars ==
    <<mainPc, main_response, titan_response, returnsSeen, mainExc, snsClient,
      snsCalls>>
vars == <<adapterVars, mainVars>>

InitAdapter ==
    /\ pc = "idle"
    /\ model_id = ""
    /\ prompt = ""
    /\ kwargs = << >>
    /\ body = NoBody
    /\ content_type = ""
    /\ accept = ""
    /\ response = NoResponse
    /\ exc = "none"
    /\ outcome = NoOutcome
    /\ built = "none"
    /\ parsed = "none"
    /\ clientCalls = << >>
    /\ callsAtEntry = 0
    /\ clientExc = "none"
    /\ main_response = None
    /\ titan_response = None
    /\ returnsSeen = << >>
    /\ mainExc = "none"
    /\ snsClient = "unset"
    /\ snsCalls = << >>

\* the adapter alone, invoked by an arbitrary caller
Init == InitAdapter /\ mainPc = "harness"

\* the script run as a program
MainInit == InitAdapter /\ mainPc = "start"

\* entry of invoke_model(m, p, **k)
Enter(m, p, k) ==
    /\ pc' = "build"
    /\ model_id' = m
    /\ prompt' = p
    /\ kwargs' = k
    /\ body' = NoBody
    /\ content_type' = ""
    /\ accept' = ""
    /\ response' = NoResponse
    /\ exc' = "none"
    /\ outcome' = NoOutcome
    /\ built' = "none"
    /\ parsed' = "none"
    /\ callsAtEntry' = Len(clientCalls)
    /\ clientExc' = "none"
    /\ UNCHANGED clientCalls

\* a caller invokes the adapter with arbitrary arguments
Call ==
    /\ mainPc = "harness"
    /\ pc = "idle"
    /\ \E m \in ModelIds, p \in Prompts, k \in KwargsSet : Enter(m, p, k)
    /\ UNCHANGED mainVars

\* invoke_model, lines 67-83: choose the family and build the body
BuildBody ==
    /\ pc = "build"
    /\ IF In("anthropic.claude", model_id)
       THEN /\ body' = _create_anthropic_body(prompt, kwargs)
            /\ built' = "_create_anthropic_body"
            /\ content_type' = "application/json"
            /\ accept' = "application/json"
            /\ pc' = "invoke"
            /\ UNCHANGED exc
       ELSE IF In("amazon.titan", model_id)
       THEN /\ body' = _create_titan_body(prompt, kwargs)
            /\ built' = "_create_titan_body"
            /\ content_type' = "application/json"
            /\ accept' = "application/json"
            /\ pc' = "invoke"
            /\ UNCHANGED exc
       ELSE IF In("ai21.j2", model_id)
       THEN /\ body' = _create_ai21_body(prompt, kwargs)
            /\ built' = "_create_ai21_body"
            /\ content_type' = "application/json"
            /\ accept' = "application/json"
            /\ pc' = "invoke"
            /\ UNCHANGED exc
       ELSE /\ exc' = "ValueError"
            /\ pc' = "except"
            /\ UNCHANGED <<body, built, content_type, accept>>
    /\ UNCHANGED <<model_id, prompt, kwargs, response, outcome, parsed,
                   clientCalls, callsAtEntry, clientExc>>
    /\ UNCHANGED mainVars

\* invoke_model, lines 86-91: the call of the inference client, which
\* returns a response or raises
ClientInvoke ==
    /\ pc = "invoke"
    /\ clientCalls' = Append(clientCalls,
            [modelId |-> model_id, body |-> body,
             contentType |-> content_type, accept |-> accept])
    /\ \/ \E b \in ResponseBodies :
            /\ response' = [body |-> json_dumps(b)]
            /\ pc' = "parse"
            /\ UNCHANGED <<exc, clientExc>>
       \/ \E e \in ClientExceptions :
            /\ exc' = e
            /\ clientExc' = e
            /\ pc' = "except"
            /\ UNCHANGED response
    /\ UNCHANGED <<model_id, prompt, kwargs, body, content_type, accept,
                   outcome, built, parsed, callsAtEntry>>
    /\ UNCHANGED mainVars

\* variant: the Titan test comes first
ParserFor_titanFirst(m) ==
    IF In("amazon.titan", m) THEN "_parse_titan_response"
    ELSE IF In("anthropic.claude", m) THEN "_parse_anthropic_response"
    ELSE IF In("ai21.j2", m) THEN "_parse_ai21_response"
    ELSE "none"

\* the parser chosen by lines 94-99, "none" when no branch is taken
ParserFor(m) ==
    IF In("anthropic.claude", m) THEN "_parse_anthropic_response"
    ELSE IF In("amazon.titan", m) THEN "_parse_titan_response"
    ELSE IF In("ai21.j2", m) THEN "_parse_ai21_response"
    ELSE "none"

\* invoke_model, lines 94-99: parse the response by family and return
ParseResponse ==
    /\ pc = "parse"
    /\ LET parser == ParserFor(model_id)
           res == IF parser = "_parse_anthropic_response"
                    THEN _parse_anthropic_response(response)
                  ELSE IF parser = "_parse_titan_response"
                    THEN _parse_titan_response(response)
                  ELSE IF parser = "_parse_ai21_response"
                    THEN _parse_ai21_response(response)
                  ELSE Returned(None)
       IN  /\ parsed' = parser
           /\ IF res.kind = "raise"
              THEN /\ exc' = res.exc
                   /\ pc' = "except"
                   /\ UNCHANGED outcome
              ELSE /\ outcome' = res
                   /\ pc' = "done"
                   /\ UNCHANGED exc
    /\ UNCHANGED <<model_id, prompt, kwargs, body, content_type, accept,
                   response, built, clientCalls, callsAtEntry, clientExc>>
    /\ UNCHANGED mainVars

\* variant: except Exception
Catches_anyException(e) == IsInstance(e, "Exception")

\* variant: only the class ClientError itself, not its subclasses
Catches_exactClass(e) == e = "ClientError"

\* invoke_model, line 101: the exceptions the except clause matches
Catches(e) == IsInstance(e, "ClientError")

\* variant: a caught ClientError makes the adapter call the client again
ExceptClause_retry ==
    /\ pc = "except"
    /\ IF Catches(exc)
       THEN pc' = "invoke" /\ UNCHANGED outcome
       ELSE pc' = "done" /\ outcome' = Raised(exc)
    /\ exc' = "none"
    /\ UNCHANGED <<model_id, prompt, kwargs, body, content_type, accept,
                   response, built, parsed, clientCalls, callsAtEntry,
                   clientExc>>
    /\ UNCHANGED mainVars

\* invoke_model, lines 101-103: except ClientError returns None, any other
\* exception leaves invoke_model
ExceptClause ==
    /\ pc = "except"
    /\ outcome' = IF Catches(exc) THEN Returned(None) ELSE Raised(exc)
    /\ exc' = "none"
    /\ pc' = "done"
    /\ UNCHANGED <<model_id, prompt, kwargs, body, content_type, accept,
                   response, built, parsed, clientCalls, callsAtEntry,
                   clientExc>>
    /\ UNCHANGED mainVars

(***************************************************************************)
(* send_sns_message and the example flow main().                           *)
(***************************************************************************)
TopicArn == "arn:aws:sns:eu-central-1:346430704880:myNotify"
Region == "eu-central-1"

\* send_sns_message, lines 159-175: create the SNS client and publish; every
\* exception of either step is caught by "except Exception" and None returned
send_sns_message(topic_arn, message, region) ==
    \/ /\ snsClient' = "failed"
       /\ UNCHANGED snsCalls
    \/ /\ snsClient' = "created"
       /\ snsCalls' = Append(snsCalls,
                [TopicArn |-> topic_arn, Message |-> message,
                 Subject |-> "SNS Notification", region_name |-> region])

\* main's "except Exception" clause, lines 217-218: print and end
MainExcept(e) ==
    /\ mainExc' = e
    /\ mainPc' = "done"

\* main, line 183: BedrockConnector(...) creates the client or re-raises
MainCreate ==
    /\ mainPc = "start"
    /\ \/ mainPc' = "list" /\ UNCHANGED mainExc
       \/ MainExcept("NoCredentialsError")
    /\ UNCHANGED <<adapterVars, main_response, titan_response, returnsSeen,
                   snsClient, snsCalls>>

\* main, line 187: list_foundation_models returns the listing, returns None
\* on ClientError (lines 49-51), and lets any other exception through
MainList ==
    /\ mainPc = "list"
    /\ \/ mainPc' = "invoke1" /\ UNCHANGED mainExc
       \/ \E e \in ClientExceptions :
            IF IsInstance(e, "ClientError")
            THEN mainPc' = "invoke1" /\ UNCHANGED mainExc
            ELSE MainExcept(e)
    /\ UNCHANGED <<adapterVars, main_response, titan_response, returnsSeen,
                   snsClient, snsCalls>>

\* main, lines 194-199: the first invocation
MainInvoke1 ==
    /\ mainPc = "invoke1"
    /\ pc = "idle"
    /\ Enter("amazon.titan-text-express-v1",
             "Explain quantum computing in simple terms.",
             [max_tokens |-> 500, temperature |-> 7])
    /\ mainPc' = "wait1"
    /\ UNCHANGED <<main_response, titan_response, returnsSeen, mainExc,
                   snsClient, snsCalls>>

\* main, lines 194 and 201-202: the first invocation ends
MainReturn1 ==
    /\ mainPc = "wait1"
    /\ pc = "done"
    /\ pc' = "idle"
    /\ IF outcome.kind = "raise"
       THEN /\ MainExcept(outcome.exc)
            /\ UNCHANGED <<main_response, returnsSeen>>
       ELSE /\ main_response' = outcome.value
            /\ returnsSeen' = Append(returnsSeen, outcome.value)
            /\ mainPc' = "invoke2"
            /\ UNCHANGED mainExc
    /\ UNCHANGED <<model_id, prompt, kwargs, body, content_type, accept,
                   response, exc, outcome, built, parsed, clientCalls,
                   callsAtEntry, clientExc, titan_response, snsClient,
                   snsCalls>>

\* main, lines 206-211: the second invocation
MainInvoke2 ==
    /\ mainPc = "invoke2"
    /\ pc = "idle"
    /\ Enter("amazon.titan-text-express-v1", "Write a short poem about AI",
             [max_tokens |-> 200, temperature |-> 8])
    /\ mainPc' = "wait2"
    /\ UNCHANGED <<main_response, titan_response, returnsSeen, mainExc,
                   snsClient, snsCalls>>

\* main, lines 206 and 213-214: the second invocation ends
MainReturn2 ==
    /\ mainPc = "wait2"
    /\ pc = "done"
    /\ pc' = "idle"
    /\ IF outcome.kind = "raise"
       THEN /\ MainExcept(outcome.exc)
            /\ UNCHANGED <<titan_response, returnsSeen>>
       ELSE /\ titan_response' = outcome.value
            /\ returnsSeen' = Append(returnsSeen, outcome.value)
            /\ mainPc' = "sns"
            /\ UNCHANGED mainExc
    /\ UNCHANGED <<model_id, prompt, kwargs, body, content_type, accept,
                   response, exc, outcome, built, parsed, clientCalls,
                   callsAtEntry, clientExc, main_response, snsClient,
                   snsCalls>>

\* variant: the first response is published
MainSendSns_firstResponse ==
    /\ mainPc = "sns"
    /\ send_sns_message(TopicArn, main_response, Region)
    /\ mainPc' = "done"
    /\ UNCHANGED <<adapterVars, main_response, titan_response, returnsSeen,
                   mainExc>>

\* main, line 215: publish the second response
MainSendSns ==
    /\ mainPc = "sns"
    /\ send_sns_message(TopicArn, titan_response, Region)
    /\ mainPc' = "done"
    /\ UNCHANGED <<adapterVars, main_response, titan_response, returnsSeen,
                   mainExc>>

Next ==
    \/ Call
    \/ BuildBody
    \/ ClientInvoke
    \/ ParseResponse
    \/ ExceptClause

Spec == Init /\ [][Next]_vars

MainNext ==
    \/ MainCreate
    \/ MainList
    \/ MainInvoke1
    \/ BuildBody
    \/ ClientInvoke
    \/ ParseResponse
    \/ ExceptClause
    \/ MainReturn1
    \/ MainInvoke2
    \/ MainReturn2
    \/ MainSendSns

MainSpec == MainInit /\ [][MainNext]_vars

(***************************************************************************)
(* Properties.                                                             *)
(***************************************************************************)
\* the three recognised substrings, in the order of precedence
Precedence == <<"anthropic.claude", "amazon.titan", "ai21.j2">>
Builders == <<"_create_anthropic_body", "_create_titan_body", "_create_ai21_body">>
Parsers ==
    <<"_parse_anthropic_response", "_parse_titan_response", "_parse_ai21_response">>
\* the positions in Precedence of the substrings model_id contains
Hits == {i \in 1..3 : In(Precedence[i], model_id)}
FirstHit == CHOOSE i \in Hits : \A j \in Hits : i <= j
\* number of calls the client received during the current invoke_model
CallsMade == Len(clientCalls) - callsAtEntry
\* the document of the body the client received last
Sent == json_loads(clientCalls[Len(clientCalls)].body)
\* the document of the response the client returned
Received == json_loads(response.body)
\* invoke_model has ended after the client returned a response
Succeeded == pc = "done" /\ CallsMade = 1 /\ clientExc = "none"
ExpectedMaxTokens == IF "max_tokens" \in DOMAIN kwargs THEN kwargs.max_tokens ELSE 1000
ExpectedTemperature == IF "temperature" \in DOMAIN kwargs THEN kwargs.temperature ELSE 5

\* C1: the family used to build the body is that of the first of
\* "anthropic.claude", "amazon.titan", "ai21.j2" that model_id contains, no
\* body is built when it contains none, and the family used to parse the
\* response is the family used to build the body.
C1_DispatchPrecedence ==
    /\ pc \notin {"idle", "build"} =>
          IF Hits = {} THEN built = "none" ELSE built = Builders[FirstHit]
    /\ pc = "done" /\ CallsMade = 1 /\ clientExc = "none" =>
          parsed = Parsers[FirstHit]
    /\ parsed # "none" => Hits # {} /\ parsed = Parsers[FirstHit]
                          /\ built = Builders[FirstHit]

C1_Witness ==
    /\ pc = "done"
    /\ In("anthropic.claude", model_id) /\ In("amazon.titan", model_id)
    /\ built = "_create_anthropic_body"
    /\ parsed = "_parse_anthropic_response"

\* C2: when model_id contains none of the three substrings, invoke_model ends
\* by raising the unsupported-model error (ValueError) to its caller, and the
\* inference client is not called during the invocation.
C2_UnsupportedPropagates ==
    pc # "idle" /\ Hits = {} =>
        /\ CallsMade = 0
        /\ pc = "done" => outcome = Raised("ValueError")

C2_Witness ==
    /\ pc = "done" /\ Hits = {} /\ model_id = "claude-text-express-v1"
    /\ outcome = Raised("ValueError") /\ CallsMade = 0

\* C3 as stated: whatever the inference client raised, invoke_model returns
\* None and raises nothing.
C3_AnyClientFailureGivesNone ==
    pc = "done" /\ clientExc # "none" => outcome = Returned(None)

\* C3 amended: a ClientError (or a subclass of it) raised by the inference
\* client makes invoke_model return None; any other failure the client raises
\* leaves invoke_model as that exception.
C3_ClientErrorGivesNone ==
    pc = "done" /\ clientExc # "none" =>
        IF clientExc \in {"ClientError", "ThrottlingException"}
        THEN outcome = Returned(None)
        ELSE outcome = Raised(clientExc)

C3_Witness ==
    /\ pc = "done" /\ Hits # {}
    /\ clientExc = "ThrottlingException" /\ outcome = Returned(None)

\* C4: for a model_id containing "anthropic.claude", the body handed to the
\* client has prompt = "\n\nHuman: " + prompt + "\n\nAssistant:",
\* stop_sequences = ["\n\nHuman:"], and max_tokens_to_sample and temperature
\* equal to the caller's values, 1000 and 0.5 when omitted.
C4_AnthropicBody ==
    In("anthropic.claude", model_id) /\ CallsMade = 1 =>
        /\ Sent.prompt = "\n\nHuman: " \o prompt \o "\n\nAssistant:"
        /\ Sent.stop_sequences = <<"\n\nHuman:">>
        /\ Sent.max_tokens_to_sample = ExpectedMaxTokens
        /\ Sent.temperature = ExpectedTemperature
        /\ DOMAIN Sent = {"prompt", "max_tokens_to_sample", "temperature",
                          "stop_sequences"}

C4_Witness ==
    /\ In("anthropic.claude", model_id) /\ CallsMade = 1
    /\ prompt = "Write a short poem about AI" /\ kwargs = << >>
    /\ Sent.prompt = "\n\nHuman: Write a short poem about AI\n\nAssistant:"
    /\ Sent.max_tokens_to_sample = 1000 /\ Sent.temperature = 5

\* C5: a Titan-style or Jurassic-style body carries the caller's prompt,
\* max_tokens and temperature unchanged and topP = 0.9 whatever the caller
\* gave; "amazon.titan-text-express-v1" with the poem prompt, 200 and 0.8 sends
\* exactly {inputText, textGenerationConfig: {200, 0.8, 0.9}}.
C5_TitanAi21Body ==
    /\ CallsMade = 1 /\ built = "_create_titan_body" =>
          Sent = [inputText |-> prompt,
                  textGenerationConfig |->
                      [maxTokenCount |-> ExpectedMaxTokens,
                       temperature |-> ExpectedTemperature,
                       topP |-> 9]]
    /\ CallsMade = 1 /\ built = "_create_ai21_body" =>
          Sent = [prompt |-> prompt,
                  maxTokens |-> ExpectedMaxTokens,
                  temperature |-> ExpectedTemperature,
                  topP |-> 9]
    /\ /\ CallsMade = 1
       /\ model_id = "amazon.titan-text-express-v1"
       /\ prompt = "Write a short poem about AI"
       /\ kwargs = [max_tokens |-> 200, temperature |-> 8]
       => Sent = [inputText |-> "Write a short poem about AI",
                  textGenerationConfig |->
                      [maxTokenCount |-> 200, temperature |-> 8, topP |-> 9]]

C5_Witness ==
    /\ CallsMade = 1
    /\ model_id = "amazon.titan-text-express-v1"
    /\ prompt = "Write a short poem about AI"
    /\ kwargs = [max_tokens |-> 200, temperature |-> 8]
    /\ Sent.textGenerationConfig.topP = 9
    /\ Sent.textGenerationConfig.temperature = 8

C7_FirstElement ==
    /\ /\ Succeeded /\ built = "_create_titan_body"
       /\ "results" \in DOMAIN Received
       /\ Len(Received.results) > 0
       /\ "outputText" \in DOMAIN Received.results[1]
       => outcome = Returned(PyStr(Received.results[1].outputText))
    /\ /\ Succeeded /\ built = "_create_ai21_body"
       /\ "completions" \in DOMAIN Received
       /\ Len(Received.completions) > 0
       /\ "data" \in DOMAIN Received.completions[1]
       /\ "text" \in DOMAIN Received.completions[1].data
       => outcome = Returned(PyStr(Received.completions[1].data.text))

C7_Witness ==
    /\ Succeeded /\ built = "_create_titan_body"
    /\ Received = [results |-> <<[outputText |-> "roses are red"],
                                 [outputText |-> ""]>>]
    /\ outcome = Returned(PyStr("roses are red"))

C10_EmptyListRaises ==
    /\ /\ Succeeded /\ built = "_create_titan_body"
       /\ "results" \in DOMAIN Received /\ Len(Received.results) = 0
       => outcome = Raised("IndexError")
    /\ /\ Succeeded /\ built = "_create_ai21_body"
       /\ "completions" \in DOMAIN Received /\ Len(Received.completions) = 0
       => outcome = Raised("IndexError")

C10_Witness ==
    /\ Succeeded /\ built = "_create_ai21_body"
    /\ Received = [completions |-> << >>]
    /\ outcome = Raised("IndexError")

\* C8 as stated: every run of main invokes the publisher exactly once, after
\* both invocations, with the text of the second invocation.
C8_PublishedOnceInEveryRun ==
    mainPc = "done" =>
        /\ Len(snsCalls) = 1
        /\ Len(returnsSeen) = 2
        /\ snsCalls[1].Message = returnsSeen[2]

\* C8 amended: main invokes the publisher exactly once, after both model
\* invocations have returned and with the value the second one returned, in
\* the runs where nothing raised into main's except clause and the SNS client
\* was created; in every other run the publisher is not invoked.
C8_PublishedOnceWhenNothingRaised ==
    /\ Len(snsCalls) <= 1
    /\ Len(snsCalls) = 1 =>
          /\ mainPc = "done" /\ pc = "idle"
          /\ Len(returnsSeen) = 2
          /\ snsCalls[1].Message = returnsSeen[2]
          /\ snsCalls[1].TopicArn = "arn:aws:sns:eu-central-1:346430704880:myNotify"
    /\ mainPc = "done" /\ mainExc = "none" /\ snsClient = "created" =>
          Len(snsCalls) = 1
    /\ mainExc # "none" \/ snsClient # "created" => Len(snsCalls) = 0

C8_Witness ==
    /\ mainPc = "done" /\ mainExc = "none"
    /\ Len(snsCalls) = 1
    /\ Len(returnsSeen) = 2
    /\ returnsSeen[1] # returnsSeen[2]
    /\ snsCalls[1].Message = PyStr("roses are red")
====
